---- MODULE Spec2Model ----
(***************************************************************************)
(* Cat_DB manager (src/Cat_DB.py): the files of the data directory, the    *)
(* current database, the Browse widgets, the ER canvas and the handlers of *)
(* the window, one action per handler.                                     *)
(*                                                                         *)
(* Names (tables, database files) are strings; Chars spells each of them   *)
(* so that LIKE, ORDER BY and the file-name pattern are computed on the    *)
(* characters, as the engine and the regular expression do.                *)
(***************************************************************************)
EXTENDS Integers, Sequences, FiniteSets, TLC

\* ------------------------------------------------------------------ bounds
\* Schema-changing statements one session runs through the SQL editor.
MaxDdl == 1
\* Columns of a table the user designs.
MaxCols == 3
\* Open connections are counted up to this number.
MaxConns == 1
\* Rows one session inserts with add_item.
MaxItems == 1
\* Rows of a table of the Browse tab at the start.
MaxRows == 2

\* ------------------------------------------------------- layout constants
PADDING == 24
BOX_W == 260
LINE_H == 18
TITLE_H == 26
GAP_X == 40
GAP_Y == 40
\* winfo_width() of a canvas that reports no width is replaced by this.
DEFAULT_W == 1000

Max(a, b) == IF a >= b THEN a ELSE b

\* ------------------------------------------------------------------ names
items == "items"
kunden == "kunden"
produkte == "produkte"
bestellungen == "bestellungen"
\* A table the user names with the letters "sqlite" in front.
sqlitelog == "sqlitelog"
\* The engine's own table, created with the first AUTOINCREMENT table.
sqlite_sequence == "sqlite_sequence"

TableNames == { items, kunden, produkte, bestellungen, sqlitelog, sqlite_sequence }

\* Tables of the Browse tab: one whose id column is no key, one without any
\* key, one whose key has two columns.
messwerte == "messwerte"
notizen == "notizen"
bestellungen_produkte == "bestellungen_produkte"

database_db == "database.db"
shop_db == "shop.db"
\* A name holding a blank, which the name pattern does not allow.
my_db_db == "my db.db"

FileNames == { database_db, shop_db, my_db_db }

\* A name that ends with a line feed, and a name no file of the data
\* directory has at the start.
shop_db_lf == "shop.db\n"
neu_db == "neu.db"
\* A file of another directory.
tmp_neu_db == "/tmp/neu.db"

\* Every file of the model: those of the data directory under their names,
\* the other under its path.
Paths == FileNames \cup { shop_db_lf, neu_db, tmp_neu_db }

\* The characters of each name and of each value of the model.
Chars(name) ==
  CASE name = "items" -> << "i", "t", "e", "m", "s" >>
    [] name = "kunden" -> << "k", "u", "n", "d", "e", "n" >>
    [] name = "produkte" -> << "p", "r", "o", "d", "u", "k", "t", "e" >>
    [] name = "bestellungen" ->
         << "b", "e", "s", "t", "e", "l", "l", "u", "n", "g", "e", "n" >>
    [] name = "sqlitelog" -> << "s", "q", "l", "i", "t", "e", "l", "o", "g" >>
    [] name = "sqlite_sequence" ->
         << "s", "q", "l", "i", "t", "e", "_", "s", "e", "q", "u", "e", "n", "c", "e" >>
    [] name = "database.db" -> << "d", "a", "t", "a", "b", "a", "s", "e", ".", "d", "b" >>
    [] name = "shop.db" -> << "s", "h", "o", "p", ".", "d", "b" >>
    [] name = "my db.db" -> << "m", "y", " ", "d", "b", ".", "d", "b" >>
    [] name = "shop.db\n" -> << "s", "h", "o", "p", ".", "d", "b", "\n" >>
    [] name = "neu.db" -> << "n", "e", "u", ".", "d", "b" >>
    [] name = "/tmp/neu.db" ->
         << "/", "t", "m", "p", "/", "n", "e", "u", ".", "d", "b" >>
    [] name = "messwerte" -> << "m", "e", "s", "s", "w", "e", "r", "t", "e" >>
    [] name = "notizen" -> << "n", "o", "t", "i", "z", "e", "n" >>
    [] name = "bestellungen_produkte" -> << "b", "e", "s", "t", "e", "l", "l", "u", "n", "g", "e", "n", "_", "p", "r", "o", "d", "u", "k", "t", "e" >>
    [] name = "id" -> << "i", "d" >>
    [] name = "name" -> << "n", "a", "m", "e" >>
    [] name = "description" -> << "d", "e", "s", "c", "r", "i", "p", "t", "i", "o", "n" >>
    [] name = "created" -> << "c", "r", "e", "a", "t", "e", "d" >>
    [] name = "wert" -> << "w", "e", "r", "t" >>
    [] name = "text" -> << "t", "e", "x", "t" >>
    [] name = "bestellung_id" -> << "b", "e", "s", "t", "e", "l", "l", "u", "n", "g", "_", "i", "d" >>
    [] name = "produkt_id" -> << "p", "r", "o", "d", "u", "k", "t", "_", "i", "d" >>
    [] name = "" -> << >>
    [] name = "1" -> << "1" >>
    [] name = "2" -> << "2" >>
    [] name = "3" -> << "3" >>
    [] name = "a" -> << "a" >>
    [] name = "b" -> << "b" >>
    [] name = "now" -> << "n", "o", "w" >>
    [] name = "a;b" -> << "a", ";", "b" >>
    [] name = "x\ny" -> << "x", "\n", "y" >>
    [] name = "q\"" -> << "q", "\"" >>
    [] name = "kunden_id" ->
         << "k", "u", "n", "d", "e", "n", "_", "i", "d" >>
    [] name = "email" ->
         << "e", "m", "a", "i", "l" >>
    [] name = "telefon" ->
         << "t", "e", "l", "e", "f", "o", "n" >>
    [] name = "ort" ->
         << "o", "r", "t" >>
    [] name = "titel" ->
         << "t", "i", "t", "e", "l" >>
    [] name = "preis" ->
         << "p", "r", "e", "i", "s" >>
    [] name = "datum" ->
         << "d", "a", "t", "u", "m" >>
    [] name = "rechnung_an" ->
         << "r", "e", "c", "h", "n", "u", "n", "g", "_", "a", "n" >>
    [] name = "x" ->
         << "x" >>
    [] name = "CREATE TABLE " ->
         << "C", "R", "E", "A", "T", "E", " ", "T", "A", "B", "L", "E", " " >>
    [] name = " (" ->
         << " ", "(" >>
    [] name = ", " ->
         << ",", " " >>
    [] name = ")" ->
         << ")" >>
    [] name = "; " ->
         << ";", " " >>
    [] name = "\n" ->
         << "\n" >>
    [] name = "DROP TABLE " ->
         << "D", "R", "O", "P", " ", "T", "A", "B", "L", "E", " " >>
    [] name = "SELECT 1" ->
         << "S", "E", "L", "E", "C", "T", " ", "1" >>
    [] name = "SELCT 1" ->
         << "S", "E", "L", "C", "T", " ", "1" >>
    [] name = "CREATE VIEW IF NOT EXISTS v AS SELECT 1" ->
         << "C", "R", "E", "A", "T", "E", " ", "V", "I", "E", "W", " ", "I", "F", " ",
             "N", "O", "T", " ", "E", "X", "I", "S", "T", "S", " ", "v", " ", "A", "S",
             " ", "S", "E", "L", "E", "C", "T", " ", "1" >>
    [] name = "CREATE TRIGGER IF NOT EXISTS tr AFTER INSERT ON " ->
         << "C", "R", "E", "A", "T", "E", " ", "T", "R", "I", "G", "G", "E", "R", " ",
             "I", "F", " ", "N", "O", "T", " ", "E", "X", "I", "S", "T", "S", " ", "t",
             "r", " ", "A", "F", "T", "E", "R", " ", "I", "N", "S", "E", "R", "T", " ",
             "O", "N", " " >>
    [] name = " BEGIN DELETE FROM items WHERE 0; END" ->
         << " ", "B", "E", "G", "I", "N", " ", "D", "E", "L", "E", "T", "E", " ", "F",
             "R", "O", "M", " ", "i", "t", "e", "m", "s", " ", "W", "H", "E", "R", "E",
             " ", "0", ";", " ", "E", "N", "D" >>
    [] name = " BEGIN SELECT 1; END" ->
         << " ", "B", "E", "G", "I", "N", " ", "S", "E", "L", "E", "C", "T", " ", "1",
             ";", " ", "E", "N", "D" >>
    [] name = "create trigger" ->
         << "c", "r", "e", "a", "t", "e", " ", "t", "r", "i", "g", "g", "e", "r" >>
    [] name = "create view" ->
         << "c", "r", "e", "a", "t", "e", " ", "v", "i", "e", "w" >>
    [] name = "begin" ->
         << "b", "e", "g", "i", "n" >>
    [] name = "end" ->
         << "e", "n", "d" >>
    [] name = "create table" ->
         << "c", "r", "e", "a", "t", "e", " ", "t", "a", "b", "l", "e" >>
    [] name = "drop table" ->
         << "d", "r", "o", "p", " ", "t", "a", "b", "l", "e" >>
    [] name = "drop view" ->
         << "d", "r", "o", "p", " ", "v", "i", "e", "w" >>
    [] name = "alter table" ->
         << "a", "l", "t", "e", "r", " ", "t", "a", "b", "l", "e" >>
    [] name = "select" ->
         << "s", "e", "l", "e", "c", "t" >>
    [] name = "pragma" ->
         << "p", "r", "a", "g", "m", "a" >>

\* ------------------------------------------------------------- characters
\* The characters the model's names use, in code-point order.
Alphabet ==
  << "\n", " ", ".", "/", "_", "a", "b", "c", "d", "e", "f", "g", "h", "i", "j", "k", "l", "m",
     "n", "o", "p", "q", "r", "s", "t", "u", "v", "w", "x", "y", "z" >>

Ord(c) == CHOOSE i \in 1..Len(Alphabet) : Alphabet[i] = c

\* BINARY collation of ORDER BY name, on the characters: byte-wise, a proper
\* prefix first.
RECURSIVE CharsLess(_, _)
CharsLess(a, b) ==
  IF b = << >> THEN FALSE
  ELSE IF a = << >> THEN TRUE
  ELSE IF Head(a) = Head(b) THEN CharsLess(Tail(a), Tail(b))
  ELSE Ord(Head(a)) < Ord(Head(b))

NameLess(a, b) == CharsLess(Chars(a), Chars(b))

\* sorted(...) / ORDER BY over a set of distinct names.
RECURSIVE SortNames(_)
SortNames(S) ==
  IF S = {} THEN << >>
  ELSE LET m == CHOOSE x \in S : \A y \in S \ {x} : NameLess(x, y)
       IN  << m >> \o SortNames(S \ {m})

\* SQLite's LIKE on lower-case text: '%' matches any run of characters, '_'
\* matches exactly one character, every other character matches itself.
RECURSIVE LikeMatch(_, _)
LikeMatch(p, s) ==
  IF p = << >> THEN s = << >>
  ELSE IF Head(p) = "%"
    THEN LikeMatch(Tail(p), s) \/ (s # << >> /\ LikeMatch(p, Tail(s)))
  ELSE IF Head(p) = "_"
    THEN s # << >> /\ LikeMatch(Tail(p), Tail(s))
  ELSE s # << >> /\ Head(s) = Head(p) /\ LikeMatch(Tail(p), Tail(s))

\* The pattern of both catalog queries: 'sqlite_%'.
SqlitePattern == << "s", "q", "l", "i", "t", "e", "_", "%" >>

\* The engine reserves the literal prefix "sqlite_" for its own tables.
ReservedPrefix == << "s", "q", "l", "i", "t", "e", "_" >>
IsInternalName(n) ==
  /\ Len(Chars(n)) >= Len(ReservedPrefix)
  /\ SubSeq(Chars(n), 1, Len(ReservedPrefix)) = ReservedPrefix

Letters ==
  { "a", "b", "c", "d", "e", "f", "g", "h", "i", "j", "k", "l", "m",
    "n", "o", "p", "q", "r", "s", "t", "u", "v", "w", "x", "y", "z" }
Digits == { "0", "1", "2", "3", "4", "5", "6", "7", "8", "9" }
SafeChars == Letters \cup Digits \cup { "_", "-" }
DbSuffix == << ".", "d", "b" >>

\* Path(file).name: what follows the last "/".
RECURSIVE AfterLastSlash(_)
AfterLastSlash(cs) ==
  IF \E i \in 1..Len(cs) : cs[i] = "/" THEN AfterLastSlash(Tail(cs)) ELSE cs

PathName(file) == CHOOSE n \in Paths : Chars(n) = AfterLastSlash(Chars(file))

\* SAFE_DB_RE.match(name): one or more safe characters, then ".db", then the
\* end of the text; "$" also matches before a line feed that ends the text.
SAFE_DB_RE(name) ==
  LET all == Chars(name)
      cs == IF all # << >> /\ all[Len(all)] = "\n"
              THEN SubSeq(all, 1, Len(all) - 1) ELSE all
      n == Len(cs) - Len(DbSuffix)
  IN  /\ n >= 1
      /\ SubSeq(cs, n + 1, Len(cs)) = DbSuffix
      /\ \A i \in 1..n : cs[i] \in SafeChars

\* ---------------------------------------------------------------- schemas
\* A table: its number of columns, the rows PRAGMA foreign_key_list returns
\* for it, whether it has an AUTOINCREMENT key, the names of its columns, the
\* pk number PRAGMA table_info gives each of them (0: not part of the primary
\* key), its rows in rowid order (a row is the tuple of its values, texts),
\* and the largest key AUTOINCREMENT has given out.
Fk(from, table, to) == [from |-> from, table |-> table, to |-> to]

TableDef(cols, pk, fks, autoinc) ==
  [ncols |-> Len(cols), fks |-> fks, autoinc |-> autoinc,
   cols |-> cols, pk |-> pk, rows |-> << >>, seq |-> 0]

ItemsDef ==
  TableDef(<< "id", "name", "description", "created" >>, << 1, 0, 0, 0 >>, << >>, TRUE)
SequenceDef == TableDef(<< "name", "seq" >>, << 0, 0 >>, << >>, FALSE)

\* INSERT INTO items (name, description) VALUES (?, ?): the key is one more
\* than the largest ever given out, created is the time of the insert.
InsertItem(def, name, desc) ==
  LET id == << "1", "2", "3" >>[def.seq + 1]
  IN  [def EXCEPT !.rows = Append(@, << id, name, desc, "now" >>), !.seq = @ + 1]

\* A database: a function from the names of its tables to their definitions.
EmptyTables == << >>

WithTable(tables, name, def) ==
  [n \in (DOMAIN tables) \cup {name} |-> IF n = name THEN def ELSE tables[n]]

WithoutTable(tables, name) ==
  [n \in (DOMAIN tables) \ {name} |-> tables[n]]

\* CREATE TABLE: the engine adds sqlite_sequence with the first AUTOINCREMENT
\* table of the database.
CreateTable(tables, name, def) ==
  LET t1 == WithTable(tables, name, def)
  IN  IF def.autoinc /\ sqlite_sequence \notin DOMAIN t1
        THEN WithTable(t1, sqlite_sequence, SequenceDef)
        ELSE t1

\* CREATE TABLE IF NOT EXISTS items (...).
CreateItemsIfNotExists(tables) ==
  IF items \in DOMAIN tables THEN tables ELSE CreateTable(tables, items, ItemsDef)

\* A file of the data directory.
MissingFile == [kind |-> "missing", tables |-> EmptyTables]
CorruptFile == [kind |-> "corrupt", tables |-> EmptyTables]
DbFile(tables) == [kind |-> "db", tables |-> tables]

\* SELECT name FROM sqlite_master WHERE type='table'
\*   AND name NOT LIKE 'sqlite_%' ORDER BY name
UserTablesQuery(tables) ==
  SortNames({ n \in DOMAIN tables : ~LikeMatch(SqlitePattern, Chars(n)) })

\* -------------------------------------------------------------------- CSV
\* csv.writer(f, delimiter=";"): the excel dialect, minimal quoting.  A field
\* is quoted when it holds the delimiter, the quote or a line break, and when
\* it is the empty only field of its row; a quote inside is doubled.
RECURSIVE Doubled(_)
Doubled(cs) ==
  IF cs = << >> THEN << >>
  ELSE (IF Head(cs) = "\"" THEN << "\"", "\"" >> ELSE << Head(cs) >>) \o Doubled(Tail(cs))

\* Faulty variant of CsvField: no field is quoted.
CsvFieldPlain(cs, alone) == cs

CsvField(cs, alone) ==
  IF (cs = << >> /\ alone) \/ (\E i \in 1..Len(cs) : cs[i] \in { ";", "\"", "\r", "\n" })
    THEN << "\"" >> \o Doubled(cs) \o << "\"" >>
    ELSE cs

RECURSIVE JoinFields(_, _)
JoinFields(fields, alone) ==
  IF fields = << >> THEN << >>
  ELSE CsvField(Chars(Head(fields)), alone)
       \o (IF Len(fields) > 1 THEN << ";" >> ELSE << >>)
       \o JoinFields(Tail(fields), alone)

\* w.writerow(fields)
WriteRow(fields) == JoinFields(fields, Len(fields) = 1) \o << "\r", "\n" >>

RECURSIVE WriteRows(_)
WriteRows(rows) ==
  IF rows = << >> THEN << >> ELSE WriteRow(Head(rows)) \o WriteRows(Tail(rows))

\* The text export_csv_current writes for these columns and rows.
CsvText(cols, rows) == WriteRow(cols) \o WriteRows(rows)

\* csv.reader(f, delimiter=";") on a file opened with newline="": the parser
\* of the csv module, a state machine fed the characters of each line and the
\* end of the line.  p.recs are the rows read so far, p.rec the fields of the
\* row being read, p.field the characters of the field being read.
SaveField(p) == [p EXCEPT !.rec = Append(@, p.field), !.field = << >>]

AddChar(p, c) == [p EXCEPT !.field = Append(@, c)]

CsvChar(p, c) ==
  LET brk == c \in { "\r", "\n" }
  IN  CASE p.st = "START_RECORD" /\ brk -> [p EXCEPT !.st = "EAT_CRNL"]
        [] p.st \in { "START_RECORD", "START_FIELD" } /\ ~(p.st = "START_RECORD" /\ brk) ->
             IF brk THEN [SaveField(p) EXCEPT !.st = "EAT_CRNL"]
             ELSE IF c = "\"" THEN [p EXCEPT !.st = "IN_QUOTED_FIELD"]
             ELSE IF c = ";" THEN [SaveField(p) EXCEPT !.st = "START_FIELD"]
             ELSE [AddChar(p, c) EXCEPT !.st = "IN_FIELD"]
        [] p.st = "IN_FIELD" ->
             IF brk THEN [SaveField(p) EXCEPT !.st = "EAT_CRNL"]
             ELSE IF c = ";" THEN [SaveField(p) EXCEPT !.st = "START_FIELD"]
             ELSE AddChar(p, c)
        [] p.st = "IN_QUOTED_FIELD" ->
             IF c = "\"" THEN [p EXCEPT !.st = "QUOTE_IN_QUOTED_FIELD"] ELSE AddChar(p, c)
        [] p.st = "QUOTE_IN_QUOTED_FIELD" ->
             IF c = "\"" THEN [AddChar(p, c) EXCEPT !.st = "IN_QUOTED_FIELD"]
             ELSE IF c = ";" THEN [SaveField(p) EXCEPT !.st = "START_FIELD"]
             ELSE IF brk THEN [SaveField(p) EXCEPT !.st = "EAT_CRNL"]
             ELSE [AddChar(p, c) EXCEPT !.st = "IN_FIELD"]
        [] p.st = "EAT_CRNL" ->
             IF brk THEN p ELSE [p EXCEPT !.st = "ERROR"]
        [] OTHER -> p

\* The end of a line: outside a quoted field the row is complete.
CsvEndOfLine(p) ==
  LET q == CASE p.st \in { "START_FIELD", "IN_FIELD", "QUOTE_IN_QUOTED_FIELD" } ->
                  [SaveField(p) EXCEPT !.st = "START_RECORD"]
             [] p.st = "EAT_CRNL" -> [p EXCEPT !.st = "START_RECORD"]
             [] OTHER -> p
  IN  IF q.st = "START_RECORD"
        THEN [q EXCEPT !.recs = Append(@, q.rec), !.rec = << >>]
        ELSE q

\* One character of the text; a line ends after "\n", and after "\r" unless
\* "\n" follows.
CsvStep(p, text, i) ==
  LET c == text[i]
      q == CsvChar(p, c)
      ends == c = "\n" \/ (c = "\r" /\ (i = Len(text) \/ text[i + 1] # "\n"))
  IN  IF ends THEN CsvEndOfLine(q) ELSE q

\* The characters lo..hi of the text, in their order; after an error the
\* reader takes no further character.
RECURSIVE CsvFold(_, _, _, _)
CsvFold(p, text, lo, hi) ==
  IF lo > hi THEN p
  ELSE IF lo = hi THEN CsvStep(p, text, lo)
  ELSE LET mid == (lo + hi) \div 2
           left == CsvFold(p, text, lo, mid)
       IN  IF left.st = "ERROR" THEN left ELSE CsvFold(left, text, mid + 1, hi)

\* The whole text; what is left at its end is the last row.
CsvParse(text, p0) ==
  LET p == CsvFold(p0, text, 1, Len(text))
  IN  IF p.st \in { "START_RECORD", "ERROR" } THEN p
      ELSE IF p.st = "IN_QUOTED_FIELD"
        THEN CsvEndOfLine([p EXCEPT !.st = "QUOTE_IN_QUOTED_FIELD"])
      ELSE CsvEndOfLine(p)

\* list(csv.reader(f, delimiter=";")): the rows, each a tuple of fields.
ReadCsv(text) ==
  CsvParse(text, [st |-> "START_RECORD", field |-> << >>, rec |-> << >>, recs |-> << >>]).recs

\* ----------------------------------------------------------------- layout
\* W = self.er_canvas.winfo_width() or 1000
CanvasWidth(raw) == IF raw = 0 THEN DEFAULT_W ELSE raw

\* per_row = max(1, (W - PADDING) // (BOX_W + GAP_X))
PerRow(W) == Max(1, (W - PADDING) \div (BOX_W + GAP_X))

\* box_h = TITLE_H + 8 + nlines * LINE_H + 12, nlines = max(1, len(cols))
BoxH(ncols) == TITLE_H + 8 + Max(1, ncols) * LINE_H + 12

\* The body of the layout loop for the table t at index idx (from 0).
BoxAt(idx, t, ncols, per_row) ==
  LET row == idx \div per_row
      col == idx % per_row
      x1 == PADDING + col * (BOX_W + GAP_X)
      box_h == BoxH(ncols)
      y1 == PADDING + row * (box_h + GAP_Y)
  IN  [name |-> t, x1 |-> x1, y1 |-> y1, x2 |-> x1 + BOX_W, y2 |-> y1 + box_h]

\* Height of the tallest of the boxes of grid row r, h[i] being box i's height.
TallestInRow(r, h, per_row) ==
  LET hs == { h[j] : j \in { k \in 1..Len(h) : (k - 1) \div per_row = r } }
  IN  CHOOSE m \in hs : \A x \in hs : m >= x

\* The top of grid row r when every row is as high as its tallest box.
RECURSIVE RowTop(_, _, _)
RowTop(r, h, per_row) ==
  IF r = 0 THEN PADDING
  ELSE RowTop(r - 1, h, per_row) + TallestInRow(r - 1, h, per_row) + GAP_Y

\* Faulty variant of Layout: the loop stops one table early.
LayoutSkipsLast(tables, ncols, per_row) ==
  [i \in 1..(Len(tables) - 1) |-> BoxAt(i - 1, tables[i], ncols[i], per_row)]

\* Faulty variant of Layout: a row starts below the tallest box of the row above.
LayoutRowMax(tables, ncols, per_row) ==
  LET h == [i \in 1..Len(tables) |-> BoxH(ncols[i])]
  IN  [i \in 1..Len(tables) |->
         LET b == BoxAt(i - 1, tables[i], ncols[i], per_row)
             top == RowTop((i - 1) \div per_row, h, per_row)
         IN  [b EXCEPT !.y1 = top, !.y2 = top + h[i]]]

\* The layout loop: one box per listed table; ncols[i] is len(cols_by_table[t]).
Layout(tables, ncols, per_row) ==
  [i \in 1..Len(tables) |-> BoxAt(i - 1, tables[i], ncols[i], per_row)]

ColumnCounts(tables, schema) == [i \in 1..Len(tables) |-> schema[tables[i]].ncols]

\* fks.append((t, fk["from"], fk["table"], fk["to"])) for every listed table.
RECURSIVE CollectFks(_, _)
CollectFks(tables, schema) ==
  IF tables = << >> THEN << >>
  ELSE LET t == Head(tables)
           rows == schema[t].fks
       IN  [k \in 1..Len(rows) |->
              [ft |-> t, fc |-> rows[k].from, tt |-> rows[k].table, tc |-> rows[k].to]]
           \o CollectFks(Tail(tables), schema)

HasBox(bxs, t) == \E i \in 1..Len(bxs) : bxs[i].name = t
BoxOf(bxs, t) == bxs[CHOOSE i \in 1..Len(bxs) : bxs[i].name = t]

\* _draw_arrow: the line and the label placed above its middle.
DrawArrow(x1, y1, x2, y2, text) ==
  [x1 |-> x1, y1 |-> y1, x2 |-> x2, y2 |-> y2, text |-> text,
   tx |-> (x1 + x2) \div 2, ty |-> ((y1 + y2) \div 2) - 8]

\* Faulty variant of EdgeFor: the arrow leaves the source box at its left edge.
EdgeForFromLeft(fk, bxs) ==
  LET f == BoxOf(bxs, fk.ft)
      t == BoxOf(bxs, fk.tt)
  IN  DrawArrow(f.x1, (f.y1 + f.y2) \div 2, t.x1, (t.y1 + t.y2) \div 2,
                << fk.fc, "->", fk.tc >>)

\* The edge of one foreign-key row whose two tables have a box.
EdgeFor(fk, bxs) ==
  LET f == BoxOf(bxs, fk.ft)
      t == BoxOf(bxs, fk.tt)
  IN  DrawArrow(f.x2, (f.y1 + f.y2) \div 2, t.x1, (t.y1 + t.y2) \div 2,
                << fk.fc, "->", fk.tc >>)

\* if ft not in boxes or tt not in boxes: continue
EdgeDrawn(fk, bxs) == HasBox(bxs, fk.ft) /\ HasBox(bxs, fk.tt)

\* Faulty variant of DrawEdges: one arrow per pair of tables, the first row's.
RECURSIVE DrawEdgesBundled(_, _)
DrawEdgesBundled(fkrows, bxs) ==
  IF fkrows = << >> THEN << >>
  ELSE LET n == Len(fkrows)
           fk == fkrows[n]
           seen == \E k \in 1..(n - 1) : fkrows[k].ft = fk.ft /\ fkrows[k].tt = fk.tt
       IN  DrawEdgesBundled(SubSeq(fkrows, 1, n - 1), bxs)
           \o (IF EdgeDrawn(fk, bxs) /\ ~seen THEN << EdgeFor(fk, bxs) >> ELSE << >>)

\* The edge loop, in the order of fks.
RECURSIVE DrawEdges(_, _)
DrawEdges(fkrows, bxs) ==
  IF fkrows = << >> THEN << >>
  ELSE (IF EdgeDrawn(Head(fkrows), bxs) THEN << EdgeFor(Head(fkrows), bxs) >> ELSE << >>)
       \o DrawEdges(Tail(fkrows), bxs)

\* ------------------------------------------------------------------ state
VARIABLES
  fs,         \* the data directory: file name -> file
  cur,        \* CURRENT_DB: the name of the current database file
  cmbValues,  \* cmb_tables["values"]
  cmb,        \* cmb_tables.get(): the selected table, or NoSel
  boxes,      \* the table boxes on er_canvas, in drawing order
  edges,      \* the arrows on er_canvas, in drawing order
  erInfo,     \* the text of the er_info label
  erW,        \* what winfo_width() returned to the last build_er_diagram
  perRow,     \* per_row of the last layout
  erTables,   \* tables of the last build_er_diagram
  erFks,      \* fks of the last build_er_diagram
  conns,      \* connections open between two handlers (counted to MaxConns)
  pinned,     \* those of them a frame of sys.last_traceback refers to
  ddl,        \* schema-changing statements run so far
  grid,       \* grid_browse: its columns and rows, and where they were read
  csvFile,    \* the text of the file export_csv_current wrote last
  last        \* how the last handler ended

vars ==
  << fs, cur, cmbValues, cmb, boxes, edges, erInfo, erW, perRow,
     erTables, erFks, conns, pinned, ddl, grid, csvFile, last >>

NoSel == ""

\* What winfo_width() returns to a handler: nothing, which stands for the
\* default width.  The layout is checked at other widths under SpecEr.
Widths == { 0 }

\* What ent_filter may hold when a handler reads it: nothing, or a WHERE text
\* the engine rejects.  The user edits the entry between any two handlers, so
\* its content is an input of the handler that reads it.
Filters == { "", "bad" }

\* The handlers are sequential code: each is a function from the state at its
\* start (a record w) to the state at its end.  w.raised says an exception is
\* propagating, w.failed that some step of the handler failed, w.modal names
\* the last message box shown, w.opened counts the connections the handler
\* opened, w.live those that frames on the call stack (or in the propagating
\* traceback) still refer to, w.chosen is the file a dialog of the handler
\* returned, w.row the values of the grid row the handler found selected,
\* w.done says the handler's DELETE was committed or its file written, w.mode
\* how run_sql handed the text to the engine.
World(flt) ==
  [fs |-> fs, cur |-> cur, cmbValues |-> cmbValues, cmb |-> cmb, filter |-> flt,
   boxes |-> boxes, edges |-> edges, erInfo |-> erInfo, erW |-> erW,
   perRow |-> perRow, erTables |-> erTables, erFks |-> erFks, ddl |-> ddl,
   grid |-> grid, csvFile |-> csvFile,
   raised |-> FALSE, failed |-> FALSE, modal |-> "none", opened |-> 0, live |-> 0,
   chosen |-> NoSel, row |-> << >>, done |-> FALSE, mode |-> "none"]

Raise(w) == [w EXCEPT !.raised = TRUE, !.failed = TRUE]

\* messagebox.showerror / showwarning / showinfo
ShowModal(w, kind) == [w EXCEPT !.modal = kind]

\* except Exception as e: messagebox.showerror(...), in a frame that held
\* `held` connections before its try block.
Caught(w, held) ==
  ShowModal([w EXCEPT !.raised = FALSE, !.failed = TRUE, !.live = held], "error")

\* sqlite3.connect creates the file when it is missing; the connection object
\* is referred to by a local variable of the calling frame.
Connect(w, name) ==
  [w EXCEPT !.fs[name] = IF @.kind = "missing" THEN DbFile(EmptyTables) ELSE @,
            !.opened = @ + 1, !.live = @ + 1]

\* get_db_conn(): connect to CURRENT_DB; PRAGMA foreign_keys reads no page.
get_db_conn(w) == Connect(w, w.cur)

\* The first statement that reads the file raises DatabaseError on a file
\* that is not a database.
Readable(w) == w.fs[w.cur].kind = "db"

Tables(w) == w.fs[w.cur].tables

\* set_current_db(name)
set_current_db(w, name) ==
  IF ~SAFE_DB_RE(name) THEN Raise(w) ELSE [w EXCEPT !.cur = name]

\* The rows SELECT * FROM t WHERE <filter> returns, for the filters of the
\* model: none, and "1=0", which no row satisfies.
FilterRows(rows, flt) == IF flt = "1=0" THEN << >> ELSE rows

\* _render_grid on grid_browse; the table and the file are kept beside the
\* columns and rows to say where they were read.
RenderGrid(w, cols, rows) ==
  [w EXCEPT !.grid = [cols |-> cols, rows |-> rows, table |-> w.cmb, db |-> w.cur]]

\* load_table_rows(): `with conn` commits or rolls back and does not close;
\* the frame lets go of the connection when the function returns.
load_table_rows(w) ==
  IF w.cmb = NoSel THEN w
  ELSE LET c == get_db_conn(w)
       IN  IF Readable(c) /\ w.cmb \in DOMAIN Tables(c) /\ w.filter # "bad"
             THEN LET def == Tables(c)[w.cmb]
                  IN  RenderGrid([c EXCEPT !.live = w.live],
                                 def.cols, FilterRows(def.rows, w.filter))
             ELSE Caught(c, w.live)

\* The position of a column in a list of columns, 0 when it is not there.
ColIndex(cols, col) ==
  IF \E i \in 1..Len(cols) : cols[i] = col
    THEN CHOOSE i \in 1..Len(cols) : cols[i] = col /\ \A j \in 1..(i - 1) : cols[j] # col
    ELSE 0

\* Faulty variant of PkOne: falls back to the first column when no column is
\* flagged.
PkOneOrFirst(tables, t) ==
  IF t \notin DOMAIN tables THEN NoSel
  ELSE IF \E i \in 1..Len(tables[t].pk) : tables[t].pk[i] = 1
    THEN tables[t].cols[CHOOSE i \in 1..Len(tables[t].pk) : tables[t].pk[i] = 1]
  ELSE tables[t].cols[1]

\* for c in pkinfo: if c["pk"] == 1: pk_col = c["name"]; break
\* PRAGMA table_info of a table that does not exist has no rows.
PkOne(tables, t) ==
  IF t \in DOMAIN tables /\ (\E i \in 1..Len(tables[t].pk) : tables[t].pk[i] = 1)
    THEN tables[t].cols[CHOOSE i \in 1..Len(tables[t].pk) : tables[t].pk[i] = 1]
    ELSE NoSel

\* DELETE FROM t WHERE col = val
DeleteWhere(def, col, val) ==
  LET i == ColIndex(def.cols, col)
      KeepRow(r) == r[i] # val
  IN  [def EXCEPT !.rows = SelectSeq(@, KeepRow)]

\* delete_selected_row() with the grid row k selected (0: none); the values
\* of the row are those the grid holds.
delete_selected_row(w, k) ==
  IF w.cmb = NoSel THEN w
  ELSE IF k = 0 THEN ShowModal(w, "info")
  ELSE
    LET t == w.cmb
        cols == w.grid.cols
        w0 == [w EXCEPT !.row = w.grid.rows[k]]
        c == IF ColIndex(cols, "id") # 0 THEN w0 ELSE get_db_conn(w0)
    IN  IF ColIndex(cols, "id") = 0 /\ ~Readable(c) THEN Raise(c)
        ELSE
          LET pk_col == IF ColIndex(cols, "id") # 0 THEN "id" ELSE PkOne(Tables(c), t)
              pk_idx == ColIndex(cols, pk_col)
          IN  IF pk_col = NoSel
                THEN ShowModal([c EXCEPT !.failed = TRUE, !.live = w.live], "warning")
              ELSE IF pk_idx = 0 THEN Caught(c, w.live)
              ELSE
                LET d == get_db_conn(c)
                IN  IF \/ ~Readable(d)
                       \/ t \notin DOMAIN Tables(d)
                       \/ ColIndex(Tables(d)[t].cols, pk_col) = 0
                      THEN Caught(d, w.live)
                    ELSE
                      LET w1 == [d EXCEPT !.fs[d.cur].tables[t] =
                                            DeleteWhere(@, pk_col, w0.row[pk_idx]),
                                          !.done = TRUE]
                      IN  [load_table_rows(w1) EXCEPT !.live = w.live]

\* export_csv_current(), picked saying whether the save dialog returned a
\* file.
export_csv_current(w, picked) ==
  IF w.cmb = NoSel THEN ShowModal(w, "info")
  ELSE IF ~picked THEN w
  ELSE LET c == get_db_conn(w)
       IN  IF ~Readable(c) \/ w.cmb \notin DOMAIN Tables(c) THEN Caught(c, w.live)
           ELSE LET def == Tables(c)[w.cmb]
                IN  [c EXCEPT !.live = w.live, !.done = TRUE,
                              !.csvFile = CsvText(def.cols, def.rows)]

\* reload_items(): every exception ends in an empty preview, without a message.
reload_items(w) == [get_db_conn(w) EXCEPT !.live = w.live]

\* refresh_schema()
refresh_schema(w) ==
  LET w1 == [w EXCEPT !.cmb = NoSel, !.cmbValues = << >>]
  IN  IF w1.fs[w1.cur].kind = "missing" THEN w1
      ELSE LET c == get_db_conn(w1)
           IN  IF ~Readable(c) THEN Raise(c)
               ELSE LET names == UserTablesQuery(Tables(c))
                        w2 == [c EXCEPT !.cmbValues = names]
                        w3 == IF names # << >>
                                THEN load_table_rows([w2 EXCEPT !.cmb = names[1]])
                                ELSE w2
                    IN  [reload_items(w3) EXCEPT !.live = w.live]

\* build_er_diagram(), raw being what winfo_width() returns.
build_er_diagram(w, raw) ==
  LET w1 == [w EXCEPT !.boxes = << >>, !.edges = << >>,
                      !.erTables = << >>, !.erFks = << >>]
  IN  IF w1.fs[w1.cur].kind = "missing"
        THEN [w1 EXCEPT !.erInfo = << "Keine DB." >>]
      ELSE LET c == get_db_conn(w1)
           IN  IF ~Readable(c) THEN Raise(c)
               ELSE LET tables == UserTablesQuery(Tables(c))
                        fks == CollectFks(tables, Tables(c))
                        per_row == PerRow(CanvasWidth(raw))
                        bxs == Layout(tables, ColumnCounts(tables, Tables(c)), per_row)
                    IN  [c EXCEPT !.live = w.live, !.erW = raw, !.perRow = per_row,
                                  !.erTables = tables, !.erFks = fks,
                                  !.boxes = bxs, !.edges = DrawEdges(fks, bxs),
                                  !.erInfo = << "Generiert aus: ", c.cur >>]

\* ------------------------------------------------------- SQL editor texts
\* The statements the model types into the editor: the CREATE TABLE statements
\* of the program's own examples and help text, DROP TABLE, a query, a
\* malformed text.
KundenDef(n) ==
  TableDef(SubSeq(<< "kunden_id", "name", "email", "telefon", "ort" >>, 1, n),
           [i \in 1..n |-> IF i = 1 THEN 1 ELSE 0], << >>, TRUE)
ProdukteDef == TableDef(<< "produkt_id", "titel", "preis" >>, << 1, 0, 0 >>, << >>, TRUE)
BestellungenDef ==
  TableDef(<< "bestellung_id", "kunden_id", "produkt_id", "datum" >>, << 1, 0, 0, 0 >>,
           << Fk("produkt_id", produkte, "produkt_id"),
              Fk("kunden_id", kunden, "kunden_id") >>,
           TRUE)
\* Two foreign keys to the same table.
BestellungenTwoDef ==
  TableDef(<< "bestellung_id", "kunden_id", "rechnung_an" >>, << 1, 0, 0 >>,
           << Fk("rechnung_an", kunden, "kunden_id"),
              Fk("kunden_id", kunden, "kunden_id") >>,
           TRUE)
SqlitelogDef == TableDef(<< "x" >>, << 0 >>, << >>, FALSE)

NoDef == TableDef(<< >>, << >>, << >>, FALSE)

SqlTexts ==
  { [kind |-> "create", name |-> items, def |-> ItemsDef],
    [kind |-> "create", name |-> kunden, def |-> KundenDef(2)],
    [kind |-> "create", name |-> bestellungen, def |-> BestellungenDef],
    [kind |-> "create", name |-> bestellungen, def |-> BestellungenTwoDef],
    [kind |-> "create", name |-> sqlitelog, def |-> SqlitelogDef] }
  \cup { [kind |-> "drop", name |-> n, def |-> NoDef] : n \in TableNames \ { produkte } }
  \cup { [kind |-> k, name |-> "", def |-> NoDef] : k \in { "select", "bad" } }

IsDdl(stmt) == stmt.kind \in { "create", "drop" }

\* CREATE VIEW IF NOT EXISTS v AS SELECT 1, and CREATE TRIGGER IF NOT EXISTS
\* tr AFTER INSERT ON items with a body of one statement, a DELETE or a
\* SELECT.  A view or a trigger is an object of the catalog that no query of
\* the program lists, and its second creation changes nothing.
ViewStmt == [kind |-> "view", name |-> "", def |-> NoDef]
TriggerStmt == [kind |-> "trigger", name |-> items, def |-> NoDef]
TriggerSelectStmt == [kind |-> "trigger_select", name |-> items, def |-> NoDef]
BadStmt == [kind |-> "bad", name |-> "", def |-> NoDef]

Statements == SqlTexts \cup { ViewStmt, TriggerStmt, TriggerSelectStmt }

\* Whether the engine runs the statement on these tables without an error.
StmtOk(stmt, tables) ==
  CASE stmt.kind = "create" ->
         stmt.name \notin DOMAIN tables /\ ~IsInternalName(stmt.name)
    [] stmt.kind = "drop" ->
         stmt.name \in DOMAIN tables /\ ~IsInternalName(stmt.name)
    [] stmt.kind \in { "trigger", "trigger_select" } ->
         stmt.name \in DOMAIN tables /\ ~IsInternalName(stmt.name)
    [] stmt.kind \in { "select", "view" } -> TRUE
    [] OTHER -> FALSE

\* The tables after the statement.
Exec(stmt, tables) ==
  CASE stmt.kind = "create" -> CreateTable(tables, stmt.name, stmt.def)
    [] stmt.kind = "drop" -> WithoutTable(tables, stmt.name)
    [] OTHER -> tables

\* The statements in their order up to the first that fails: the statements
\* of the model open no transaction, so what ran before the failure stays.
\* n counts the tables created and dropped.
RECURSIVE ExecAll(_, _)
ExecAll(stmts, tables) ==
  IF stmts = << >> THEN [tables |-> tables, ok |-> TRUE, n |-> 0]
  ELSE IF ~StmtOk(Head(stmts), tables) THEN [tables |-> tables, ok |-> FALSE, n |-> 0]
  ELSE LET r == ExecAll(Tail(stmts), Exec(Head(stmts), tables))
       IN  [r EXCEPT !.n = @ + (IF IsDdl(Head(stmts)) THEN 1 ELSE 0)]

\* --- the text of the editor, in characters
\* The operations on texts are functions of the character sequence.
Text == Seq(STRING)

\* sep.join(parts)
JoinWith[parts \in Seq(Text), sep \in Text] ==
  IF parts = << >> THEN << >>
  ELSE IF Len(parts) = 1 THEN parts[1]
  ELSE parts[1] \o sep \o JoinWith[Tail(parts), sep]

\* The text of one statement as the examples of the program write it, the
\* types and constraints of the columns left out.
StmtText(stmt) ==
  CASE stmt.kind = "create" ->
         Chars("CREATE TABLE ") \o Chars(stmt.name) \o Chars(" (")
           \o JoinWith[[i \in 1..Len(stmt.def.cols) |-> Chars(stmt.def.cols[i])], Chars(", ")]
           \o Chars(")")
    [] stmt.kind = "drop" -> Chars("DROP TABLE ") \o Chars(stmt.name)
    [] stmt.kind = "select" -> Chars("SELECT 1")
    [] stmt.kind = "view" -> Chars("CREATE VIEW IF NOT EXISTS v AS SELECT 1")
    [] stmt.kind = "trigger" ->
         Chars("CREATE TRIGGER IF NOT EXISTS tr AFTER INSERT ON ") \o Chars(stmt.name)
           \o Chars(" BEGIN DELETE FROM items WHERE 0; END")
    [] stmt.kind = "trigger_select" ->
         Chars("CREATE TRIGGER IF NOT EXISTS tr AFTER INSERT ON ") \o Chars(stmt.name)
           \o Chars(" BEGIN SELECT 1; END")
    [] OTHER -> Chars("SELCT 1")

\* self.txt_sql.get("1.0", "end"): the statements typed one after the other,
\* and the line feed the Text widget ends with.
EditorText(stmts) ==
  JoinWith[[i \in 1..Len(stmts) |-> StmtText(stmts[i])], Chars("; ")] \o Chars("\n")

\* str.lower()
Lower[cs \in Text] ==
  LET upper == << "A", "B", "C", "D", "E", "F", "G", "H", "I", "J", "K", "L", "M",
                  "N", "O", "P", "Q", "R", "S", "T", "U", "V", "W", "X", "Y", "Z" >>
      lower == << "a", "b", "c", "d", "e", "f", "g", "h", "i", "j", "k", "l", "m",
                  "n", "o", "p", "q", "r", "s", "t", "u", "v", "w", "x", "y", "z" >>
  IN  [i \in 1..Len(cs) |->
         IF \E k \in 1..26 : upper[k] = cs[i]
           THEN lower[CHOOSE k \in 1..26 : upper[k] = cs[i]]
           ELSE cs[i]]

\* str.strip()
Strip[cs \in Text] ==
  LET inked == { i \in 1..Len(cs) : cs[i] \notin { " ", "\n", "\r", "\t" } }
  IN  IF inked = {} THEN << >>
      ELSE SubSeq(cs, CHOOSE i \in inked : \A j \in inked : i <= j,
                      CHOOSE i \in inked : \A j \in inked : j <= i)

\* sub in cs
Contains[cs \in Text, sub \in Text] ==
  \E i \in 0..(Len(cs) - Len(sub)) : SubSeq(cs, i + 1, i + Len(sub)) = sub

\* cs.split(";")
SplitAtSemicolon[cs \in Text] ==
  LET cuts == { 0, Len(cs) + 1 } \cup { i \in 1..Len(cs) : cs[i] = ";" }
      cut(k) == CHOOSE c \in cuts : Cardinality({ d \in cuts : d < c }) = k - 1
  IN  [k \in 1..(Cardinality(cuts) - 1) |-> SubSeq(cs, cut(k) + 1, cut(k + 1) - 1)]

ddl_markers ==
  { Chars("create trigger"), Chars("create view"), Chars("begin"), Chars("end"),
    Chars("create table"), Chars("drop table"), Chars("drop view"), Chars("alter table") }

\* use_script and ("select" not in text_low and "pragma" not in text_low),
\* on text_low.
ScriptMode[text_low \in Text] ==
  LET use_script == \E m \in ddl_markers : Contains[text_low, m]
  IN  /\ use_script
      /\ ~Contains[text_low, Chars("select")]
      /\ ~Contains[text_low, Chars("pragma")]

\* What the engine makes of one piece of the text: the statement that is
\* written so, or a syntax error.
Parse[piece \in Text] ==
  IF \E s \in Statements : StmtText(s) = piece
    THEN CHOOSE s \in Statements : StmtText(s) = piece
    ELSE BadStmt

\* statements = [s.strip() for s in sql_text.split(";") if s.strip()], each
\* as the engine reads it.
SplitStatements[sql_text \in Text] ==
  LET parts == SplitAtSemicolon[sql_text]
      NotEmpty(piece) == piece # << >>
      kept == SelectSeq([i \in 1..Len(parts) |-> Strip[parts[i]]], NotEmpty)
  IN  [i \in 1..Len(kept) |-> Parse[kept[i]]]

\* The mode run_sql chooses for a text and the statements the engine gets:
\* executescript reads the statements as they were typed, execute gets the
\* pieces one by one.
Submitted(stmts) ==
  IF ScriptMode[Lower[Strip[EditorText(stmts)]]]
    THEN [mode |-> "script", run |-> stmts]
    ELSE [mode |-> "split", run |-> SplitStatements[Strip[EditorText(stmts)]]]

\* The texts of the model: one statement, or two of these.
EditorTexts ==
  { << s >> : s \in Statements }
    \cup { << s, t >> :
             s \in { [kind |-> "create", name |-> kunden, def |-> KundenDef(2)],
                     [kind |-> "select", name |-> "", def |-> NoDef],
                     BadStmt },
             t \in { [kind |-> "create", name |-> sqlitelog, def |-> SqlitelogDef],
                     [kind |-> "drop", name |-> items, def |-> NoDef],
                     [kind |-> "select", name |-> "", def |-> NoDef],
                     ViewStmt, TriggerStmt, TriggerSelectStmt, BadStmt } }

\* run_sql() on a non-empty editor text, plan being what Submitted makes of
\* the text.
run_sql(w, plan, raw) ==
  LET c == [get_db_conn(w) EXCEPT !.mode = plan.mode]
  IN  IF ~Readable(c) THEN Caught(c, w.live)
      ELSE LET r == ExecAll(plan.run, Tables(c))
               w1 == [c EXCEPT !.fs[c.cur].tables = r.tables, !.ddl = @ + r.n]
               w2 == refresh_schema(w1)
               w3 == IF w2.raised THEN w2 ELSE build_er_diagram(w2, raw)
           IN  IF ~r.ok THEN Caught(w1, w.live)
               ELSE IF w3.raised THEN Caught(w3, w.live)
               ELSE [w3 EXCEPT !.live = w.live]

\* add_item(), named saying whether the Name entry holds text.
add_item(w, named) ==
  IF ~named THEN ShowModal([w EXCEPT !.failed = TRUE], "warning")
  ELSE LET c == get_db_conn(w)
       IN  IF ~Readable(c) THEN Caught(c, w.live)
           ELSE LET w1 == [c EXCEPT !.fs[c.cur].tables = CreateItemsIfNotExists(@)]
                    w2 == [w1 EXCEPT !.fs[c.cur].tables[items] = InsertItem(@, "a;b", "")]
                IN  ShowModal([reload_items(w2) EXCEPT !.live = w.live], "info")

\* on_open_db() after the dialog returned file.
on_open_db(w, file, raw) ==
  LET w1 == set_current_db([w EXCEPT !.chosen = file], PathName(file))
      w2 == IF w1.raised THEN w1 ELSE refresh_schema(w1)
  IN  IF w2.raised THEN w2 ELSE build_er_diagram(w2, raw)

\* on_new_db() after the dialog returned file.
on_new_db(w, file, raw) ==
  LET c == Connect([w EXCEPT !.chosen = file], file)
  IN  IF c.fs[file].kind # "db" THEN Raise(c)
      ELSE LET w1 == [c EXCEPT !.fs[file].tables = CreateItemsIfNotExists(@)]
               w2 == set_current_db(w1, PathName(file))
               w3 == IF w2.raised THEN w2 ELSE refresh_schema(w2)
               w4 == IF w3.raised THEN w3 ELSE build_er_diagram(w3, raw)
           IN  IF w4.raised THEN w4 ELSE [w4 EXCEPT !.live = w.live]

\* ----------------------------------------------------------- construction
\* ensure_default_db() on a fresh data directory, then App(): refresh_schema()
\* and build_er_diagram() on the canvas not yet mapped (winfo_width() = 1).
StartWorld(tables, shop) ==
  [fs |-> [n \in Paths |->
             IF n = database_db THEN DbFile(tables)
             ELSE IF n = shop_db THEN shop
             ELSE MissingFile],
   cur |-> database_db, cmbValues |-> << >>, cmb |-> NoSel, filter |-> "",
   boxes |-> << >>, edges |-> << >>, erInfo |-> << >>, erW |-> 1, perRow |-> 1,
   erTables |-> << >>, erFks |-> << >>, ddl |-> 0,
   grid |-> [cols |-> << >>, rows |-> << >>, table |-> NoSel, db |-> NoSel],
   csvFile |-> << >>,
   raised |-> FALSE, failed |-> FALSE, modal |-> "none", opened |-> 0, live |-> 0,
   chosen |-> NoSel, row |-> << >>, done |-> FALSE, mode |-> "none"]

Constructed(tables, shop) ==
  build_er_diagram(refresh_schema(StartWorld(tables, shop)), 1)

\* The database ensure_default_db() creates.
DefaultTables == CreateTable(EmptyTables, items, ItemsDef)

Cap(n) == IF n > MaxConns THEN MaxConns ELSE n

\* The state at the end of a handler.  No handler calls close(): a connection
\* stays open until the interpreter finalizes the object.  A connection that a
\* frame of an escaped exception refers to cannot be finalized: Tk keeps the
\* traceback in sys.last_traceback until the next exception escapes.
Commit(w, op) ==
  /\ fs' = w.fs
  /\ cur' = w.cur
  /\ cmbValues' = w.cmbValues
  /\ cmb' = w.cmb
  /\ boxes' = w.boxes
  /\ edges' = w.edges
  /\ erInfo' = w.erInfo
  /\ erW' = w.erW
  /\ perRow' = w.perRow
  /\ erTables' = w.erTables
  /\ erFks' = w.erFks
  /\ ddl' = w.ddl
  /\ grid' = w.grid
  /\ csvFile' = w.csvFile
  /\ conns' = Cap(conns + w.opened)
  /\ pinned' = IF w.raised THEN w.live ELSE pinned
  /\ last' = [op |-> op, failed |-> w.failed, modal |-> w.modal, escaped |-> w.raised,
              file |-> w.chosen, row |-> w.row, done |-> w.done, mode |-> w.mode]

Started(w) ==
  /\ fs = w.fs
  /\ cur = w.cur
  /\ cmbValues = w.cmbValues
  /\ cmb = w.cmb
  /\ boxes = w.boxes
  /\ edges = w.edges
  /\ erInfo = w.erInfo
  /\ erW = w.erW
  /\ perRow = w.perRow
  /\ erTables = w.erTables
  /\ erFks = w.erFks
  /\ ddl = w.ddl
  /\ grid = w.grid
  /\ csvFile = w.csvFile
  /\ conns = Cap(w.opened)
  /\ pinned = 0
  /\ last = [op |-> "init", failed |-> FALSE, modal |-> "none", escaped |-> FALSE,
             file |-> NoSel, row |-> << >>, done |-> FALSE, mode |-> "none"]

\* A fresh data directory, with or without a second file.
Init ==
  \E shop \in { MissingFile, CorruptFile } :
    \E w \in { Constructed(DefaultTables, shop) } : Started(w)

\* ---------------------------------------------------------------- actions
\* Each action evaluates its handler once and commits the result.
\* The dialog returning one of these files.
OnOpenDbAt(files) ==
  \E file \in files, raw \in Widths, flt \in Filters :
    \E w \in { on_open_db(World(flt), file, raw) } : Commit(w, "on_open_db")

OnNewDbAt(files) ==
  \E file \in files, raw \in Widths, flt \in Filters :
    \E w \in { on_new_db(World(flt), file, raw) } : Commit(w, "on_new_db")

OnOpenDb == OnOpenDbAt(FileNames)

OnNewDb == OnNewDbAt(FileNames)

RefreshSchema ==
  \E flt \in Filters :
    \E w \in { refresh_schema(World(flt)) } : Commit(w, "refresh_schema")

\* <<ComboboxSelected>> after the user picked a table of the list, or the
\* "Neu laden" button with the table already selected.
LoadTableRowsWith(filters) ==
  \E i \in 1..Len(cmbValues), flt \in filters :
    \E w \in { load_table_rows([World(flt) EXCEPT !.cmb = cmbValues[i]]) } :
      Commit(w, "load_table_rows")

LoadTableRows == LoadTableRowsWith(Filters)

\* The keys the items tables of these files have given out.
RECURSIVE SumItemsSeq(_)
SumItemsSeq(files) ==
  IF files = {} THEN 0
  ELSE LET f == CHOOSE x \in files : TRUE
           given == IF fs[f].kind = "db" /\ items \in DOMAIN fs[f].tables
                      THEN fs[f].tables[items].seq ELSE 0
       IN  given + SumItemsSeq(files \ {f})

\* named says whether the Name entry holds text ("a;b") or nothing.
AddItem ==
  \E named \in BOOLEAN :
    /\ named => SumItemsSeq(Paths) < MaxItems
    /\ \E w \in { add_item(World(""), named) } : Commit(w, "add_item")

\* The "Ausführen" button on one editor text.  A text that fails reads
\* neither the canvas width nor the filter.
RunSqlText(stmts) ==
  /\ ddl + Len(SelectSeq(stmts, IsDdl)) <= MaxDdl
  /\ \E plan \in { Submitted(stmts) } :
       LET fails == \/ fs[cur].kind = "corrupt"
                    \/ ~ExecAll(plan.run, fs[cur].tables).ok
       IN  \E raw \in (IF fails THEN { 0 } ELSE Widths),
              flt \in (IF fails THEN { "" } ELSE Filters) :
             \E w \in { run_sql(World(flt), plan, raw) } : Commit(w, "run_sql")

RunSqlWith(texts) == \E stmts \in texts : RunSqlText(stmts)

RunSql == RunSqlWith({ << s >> : s \in SqlTexts })

\* The "Aktualisieren" button, the canvas being one of these widths.
BuildErDiagramAt(widths) ==
  \E raw \in widths :
    \E w \in { build_er_diagram(World(""), raw) } : Commit(w, "build_er_diagram")

BuildErDiagram == BuildErDiagramAt(Widths)

\* The interpreter finalizes the connections nothing refers to any more.
Collect ==
  /\ conns > pinned
  /\ conns' = pinned
  /\ UNCHANGED << fs, cur, cmbValues, cmb, boxes, edges, erInfo, erW, perRow,
                  erTables, erFks, pinned, ddl, grid, csvFile, last >>

Next ==
  \/ Collect
  \/ OnOpenDb
  \/ OnNewDb
  \/ RefreshSchema
  \/ LoadTableRows
  \/ AddItem
  \/ RunSql
  \/ BuildErDiagram

Spec == Init /\ [][Next]_vars

\* ------------------------------------------------ the diagram on any schema
\* The program started on a data directory whose database.db holds any of
\* these schemas (ensure_default_db() leaves an existing file alone), and the
\* diagram rebuilt at any of these canvas widths.
UserTables == { items, kunden, produkte, bestellungen, sqlitelog }

MakeTables(defs) ==
  LET present == { n \in UserTables : defs[n] # NoDef }
      names == present \cup (IF \E n \in present : defs[n].autoinc
                               THEN { sqlite_sequence } ELSE {})
  IN  [n \in names |-> IF n = sqlite_sequence THEN SequenceDef ELSE defs[n]]

ErSchemas ==
  { MakeTables([n \in UserTables |->
                  CASE n = items -> i
                    [] n = kunden -> k
                    [] n = produkte -> p
                    [] n = bestellungen -> b
                    [] OTHER -> l]) :
      i \in { NoDef, ItemsDef },
      k \in { NoDef } \cup { KundenDef(c) : c \in 1..MaxCols },
      p \in { NoDef, ProdukteDef },
      b \in { NoDef, BestellungenDef, BestellungenTwoDef },
      l \in { NoDef, SqlitelogDef } }

\* No width, less than the padding, less than one box, two tiles, three tiles.
LayoutWidths == { 0, 10, 200, 700, 1000 }

InitEr ==
  \E tables \in ErSchemas :
    \E w \in { Constructed(tables, MissingFile) } : Started(w)

NextEr == BuildErDiagramAt(LayoutWidths) \/ Collect

SpecEr == InitEr /\ [][NextEr]_vars

\* --------------------------------------------------------- the Browse tab
\* The program started on a database.db that holds an items table and at most
\* one more table, with at most MaxRows rows.  The user selects tables,
\* edits the filter, loads and deletes rows and reloads the schema; or loads
\* and exports rows.
SeqsUpTo(S, n) == UNION { [1..k -> S] : k \in 0..n }

Distinct(rows) == \A i \in 1..Len(rows), j \in 1..Len(rows) : i # j => rows[i] # rows[j]

WithRows(def, rows, seq) == [def EXCEPT !.rows = rows, !.seq = seq]

\* items: empty, or holding the row of one add_item.
ItemsContents ==
  { ItemsDef, WithRows(ItemsDef, << << "1", "a;b", "q\"", "now" >> >>, 1) }

\* CREATE TABLE messwerte (id INTEGER, wert TEXT): id is no key.
MesswerteDef == TableDef(<< "id", "wert" >>, << 0, 0 >>, << >>, FALSE)
MesswerteContents ==
  { WithRows(MesswerteDef, rows, 0) :
      rows \in SeqsUpTo({ << "1", "a" >>, << "1", "b" >>, << "2", "a" >> }, MaxRows) }

\* CREATE TABLE notizen (text TEXT): no key at all.
NotizenDef == TableDef(<< "text" >>, << 0 >>, << >>, FALSE)
NotizenContents ==
  { WithRows(NotizenDef, rows, 0) :
      rows \in SeqsUpTo({ << "" >>, << "a;b" >>, << "x\ny" >> }, MaxRows) }

\* The table of the help text whose primary key has two columns.
BestellungenProdukteDef ==
  TableDef(<< "bestellung_id", "produkt_id" >>, << 1, 2 >>, << >>, FALSE)
BestellungenProdukteContents ==
  { WithRows(BestellungenProdukteDef, rows, 0) :
      rows \in { s \in SeqsUpTo({ << "1", "1" >>, << "1", "2" >>, << "2", "1" >> }, MaxRows) :
                   Distinct(s) } }

BrowseSchemas ==
  LET one(n, defs) == { WithTable(EmptyTables, n, d) : d \in defs }
      second == { EmptyTables }
                  \cup one(messwerte, MesswerteContents)
                  \cup one(notizen, NotizenContents)
                  \cup one(bestellungen_produkte, BestellungenProdukteContents)
  IN  { WithTable(WithTable(t, items, i), sqlite_sequence, SequenceDef) :
          t \in second, i \in ItemsContents }

\* What ent_filter may hold in the Browse tab.
BrowseFilters == Filters \cup { "1=0" }

InitBrowse ==
  \E tables \in BrowseSchemas :
    \E w \in { Constructed(tables, MissingFile) } : Started(w)

\* The "Ausgewählte Zeile löschen" button, row k of the grid being selected
\* (0: none).
DeleteSelectedRow ==
  \E k \in 0..Len(grid.rows), flt \in BrowseFilters :
    \E w \in { delete_selected_row(World(flt), k) } : Commit(w, "delete_selected_row")

\* The "CSV exportieren" button.
ExportCsvCurrent ==
  \E picked \in BOOLEAN, flt \in BrowseFilters :
    \E w \in { export_csv_current(World(flt), picked) } : Commit(w, "export_csv_current")

NextBrowse ==
  \/ LoadTableRowsWith(BrowseFilters)
  \/ DeleteSelectedRow
  \/ RefreshSchema
  \/ Collect

SpecBrowse == InitBrowse /\ [][NextBrowse]_vars

NextCsv ==
  \/ LoadTableRowsWith(BrowseFilters)
  \/ ExportCsvCurrent
  \/ Collect

SpecCsv == InitBrowse /\ [][NextCsv]_vars

\* ------------------------------------------------------- the SQL editor
\* The program started on a fresh data directory; the user runs editor texts
\* of one or two statements.
NextSql ==
  \/ RunSqlWith(EditorTexts)
  \/ Collect

SpecSql == Init /\ [][NextSql]_vars

\* ------------------------------------------------- choosing the database
\* The program started on a fresh data directory, another directory holding
\* a database or not; the two dialogs return any file of the model.
InitDb ==
  \E shop \in { MissingFile, CorruptFile },
     other \in { MissingFile, DbFile(DefaultTables) } :
    \E w \in { Constructed(DefaultTables, shop) } :
      Started([w EXCEPT !.fs[tmp_neu_db] = other])

NextDb ==
  \/ OnOpenDbAt(Paths)
  \/ OnNewDbAt(Paths)
  \/ AddItem
  \/ Collect

SpecDb == InitDb /\ [][NextDb]_vars

\* ------------------------------------------------------------ the diagram
\* The canvas shows a finished layout of the current database.
Built == erInfo = << "Generiert aus: ", cur >>

\* ... drawn by the last handler, which was build_er_diagram itself.
Rebuilt == Built /\ last.op = "build_er_diagram"

Row(i) == (i - 1) \div perRow
Height(i) == boxes[i].y2 - boxes[i].y1
LaidOut(t) == \E i \in 1..Len(boxes) : boxes[i].name = t
BoxNamed(t) == boxes[CHOOSE i \in 1..Len(boxes) : boxes[i].name = t]

\* C1: whatever the number of tables and the canvas width (none, less than
\* the padding, less than a box), tiles-per-row is at least 1 and the layout
\* holds exactly one box per listed table, all four coordinates at least 0.
C1_OneBoxPerTableNonNegative ==
  /\ perRow >= 1
  /\ Len(boxes) = Len(erTables)
  /\ \A i \in 1..Len(boxes) :
       /\ boxes[i].name = erTables[i]
       /\ boxes[i].x1 >= 0 /\ boxes[i].y1 >= 0
       /\ boxes[i].x2 >= 0 /\ boxes[i].y2 >= 0

\* Four tables laid out on a canvas narrower than the padding.
C1_Witness == Rebuilt /\ erW > 0 /\ erW < PADDING /\ Len(boxes) = 4

\* C2: the rectangles of two distinct tables never overlap.
Overlap(a, b) == a.x1 < b.x2 /\ b.x1 < a.x2 /\ a.y1 < b.y2 /\ b.y1 < a.y2

C2_NoTwoBoxesOverlap ==
  Rebuilt =>
    \A i \in 1..Len(boxes), j \in 1..Len(boxes) :
      i # j => ~Overlap(boxes[i], boxes[j])

\* C3: the top of a box of grid row r is the padding plus, for every earlier
\* row, the height of that row's tallest box plus the vertical gap.
C3_RowTopAccumulatesTallest ==
  Rebuilt =>
    \A i \in 1..Len(boxes) :
      boxes[i].y1 = RowTop(Row(i), [j \in 1..Len(boxes) |-> Height(j)], perRow)

\* Column counts another schema with the same tables may have.
AltCols == [1..Len(erTables) -> 1..(MaxCols + 1)]

OtherLayout(alt) == Layout(erTables, alt, PerRow(CanvasWidth(erW)))

\* C4 as claimed: with the same number of tables and the same canvas width,
\* the table at index i has the same top-left corner whatever the column
\* counts of the tables are.
C4_PositionIgnoresColumns ==
  Rebuilt =>
    \A alt \in AltCols : \A i \in 1..Len(boxes) :
      /\ OtherLayout(alt)[i].x1 = boxes[i].x1
      /\ OtherLayout(alt)[i].y1 = boxes[i].y1

\* C4 as amended: x1 is the same whatever the column counts are; y1 is the
\* same when the table lies in the first grid row or has a box of the same
\* height (the same column count) in both schemas.
C4_PositionFromIndexWidthOwnColumns ==
  \A alt \in AltCols : \A i \in 1..Len(boxes) :
    /\ OtherLayout(alt)[i].x1 = boxes[i].x1
    /\ (Row(i) = 0 \/ BoxH(alt[i]) = Height(i)) => OtherLayout(alt)[i].y1 = boxes[i].y1

\* A box below the first grid row, its row holding a second box.
C4_Witness ==
  /\ Rebuilt
  /\ \E i \in 1..Len(boxes), j \in 1..Len(boxes) : i # j /\ Row(i) = 1 /\ Row(j) = 1

\* Foreign-key rows of the listed tables of the current database whose two
\* tables are both listed.
FkRowsLaidOut ==
  { << t, k >> \in { << t, k >> \in UserTables \X (1..2) :
                    /\ \E i \in 1..Len(erTables) : erTables[i] = t
                    /\ t \in DOMAIN fs[cur].tables
                    /\ k <= Len(fs[cur].tables[t].fks) } :
      \E i \in 1..Len(erTables) : erTables[i] = fs[cur].tables[t].fks[k].table }

\* C5: one edge per foreign-key row of a listed table whose source and target
\* both have a box, none for a row whose target has no box.
C5_OneEdgePerLaidOutFkRow ==
  Built =>
    /\ Len(edges) = Cardinality(FkRowsLaidOut)
    /\ Len(edges) =
         Cardinality({ k \in 1..Len(erFks) : LaidOut(erFks[k].ft) /\ LaidOut(erFks[k].tt) })

\* One row drawn, the other row of the same table left out: its target is
\* not in the layout.
C5_Witness ==
  /\ Rebuilt
  /\ Len(edges) = 1
  /\ Len(erFks) = 2
  /\ \E k \in 1..2 : ~LaidOut(erFks[k].tt)

FkDrawn(fk) == LaidOut(fk.ft) /\ LaidOut(fk.tt)
DrawnFks == SelectSeq(erFks, FkDrawn)
Mid(b) == (b.y1 + b.y2) \div 2

\* C6: every edge runs from (right x of the source box, its vertical middle)
\* to (left x of the target box, its vertical middle) and is labelled with
\* the two columns; two rows between the same tables get the same endpoints.
C6_EdgeEndpointsAndLabel ==
  /\ Len(edges) = Len(DrawnFks)
  /\ \A k \in 1..Len(edges) :
       LET fk == DrawnFks[k]
           e == edges[k]
       IN  /\ e.x1 = BoxNamed(fk.ft).x2 /\ e.y1 = Mid(BoxNamed(fk.ft))
           /\ e.x2 = BoxNamed(fk.tt).x1 /\ e.y2 = Mid(BoxNamed(fk.tt))
           /\ e.text = << fk.fc, "->", fk.tc >>
  /\ \A k \in 1..Len(edges), m \in 1..Len(edges) :
       (DrawnFks[k].ft = DrawnFks[m].ft /\ DrawnFks[k].tt = DrawnFks[m].tt)
         => /\ edges[k].x1 = edges[m].x1 /\ edges[k].y1 = edges[m].y1
            /\ edges[k].x2 = edges[m].x2 /\ edges[k].y2 = edges[m].y2

\* Two rows between the same two tables, drawn with different labels.
C6_Witness ==
  /\ Rebuilt
  /\ \E k \in 1..Len(edges), m \in 1..Len(edges) :
       /\ k # m
       /\ DrawnFks[k].ft = DrawnFks[m].ft /\ DrawnFks[k].tt = DrawnFks[m].tt
       /\ edges[k].text # edges[m].text

\* ------------------------------------------------------------ the handlers
\* The user tables of the current database: every table but the engine's own,
\* whose names begin with "sqlite_", in ascending order of name.
UserTablesOfCurrent ==
  SortNames({ n \in DOMAIN fs[cur].tables : ~IsInternalName(n) })

\* C7: the table list refresh_schema and build_er_diagram read is exactly the
\* user tables of the current database, every table the user created present
\* and every "sqlite_" table absent, in ascending order, the same in both.
C7_TableListIsTheUserTables ==
  /\ (last.op = "refresh_schema" /\ ~last.escaped /\ fs[cur].kind = "db")
       => cmbValues = UserTablesOfCurrent
  /\ (last.op = "build_er_diagram" /\ Built) => erTables = UserTablesOfCurrent
  /\ (last.op \in { "on_open_db", "on_new_db" } /\ Built) => cmbValues = erTables

\* The user actions C8 lists, as far as they are handlers of the model.
UserActions ==
  { "on_open_db", "on_new_db", "refresh_schema", "load_table_rows", "add_item",
    "run_sql", "build_er_diagram" }

\* C8: a user action that fails is caught in its handler and ends with a
\* message box; no exception leaves the handler.
C8_FailureEndsInMessageBox ==
  (last.op \in UserActions /\ last.failed) => (last.modal # "none" /\ ~last.escaped)

\* C9: build_er_diagram on a current database file that is missing or is not
\* a database reports an error (a message box, or the "Keine DB." label) and
\* leaves no box and no edge on the canvas.
C9_InaccessibleDbReportedDiagramEmpty ==
  (last.op = "build_er_diagram" /\ fs[cur].kind # "db")
    => /\ boxes = << >> /\ edges = << >>
       /\ (last.modal # "none" \/ erInfo = << "Keine DB." >>)

\* C10: after a user action, and from then on until the next one, no
\* connection is open.
C10_NoConnectionOpenBetweenActions == last.op \in UserActions => conns = 0

\* ------------------------------------------------- the current database
\* Only letters, digits, "_" and "-", one at least, followed by ".db".
PlainSafeName(cs) ==
  LET n == Len(cs) - 3
  IN  /\ n >= 1
      /\ SubSeq(cs, n + 1, Len(cs)) = << ".", "d", "b" >>
      /\ \A i \in 1..n : cs[i] \in SafeChars

DbDialogs == { "on_open_db", "on_new_db" }

\* C11: the current database is always a file of the data directory whose
\* name holds only letters, digits, "_" and "-" followed by ".db"; called
\* with any other name, set_current_db raises and the current database stays
\* what it was.
C11_CurrentDbNameIsSafe ==
  /\ PlainSafeName(Chars(cur))
  /\ (last.op \in DbDialogs /\ ~PlainSafeName(Chars(PathName(last.file))))
       => (last.escaped /\ cur # PathName(last.file))

\* C17: when on_open_db or on_new_db completes, the current database is the
\* file the user chose, and after on_new_db it holds the items table; when
\* the name of the chosen file is rejected, on_new_db has created no file.
C17_CurrentDbIsTheChosenFile ==
  /\ (last.op \in DbDialogs /\ ~last.escaped) => cur = last.file
  /\ (last.op = "on_new_db" /\ ~last.escaped)
       => (fs[cur].kind = "db" /\ items \in DOMAIN fs[cur].tables)
  /\ (last.op = "on_new_db" /\ ~SAFE_DB_RE(PathName(last.file)))
       => fs[last.file].kind = "missing"

\* ------------------------------------------------------------- CSV export
\* The last handler was export_csv_current and it wrote its file.
Exported == last.op = "export_csv_current" /\ last.done

\* The table the combobox names, in the current database.
SelectedTable == fs[cur].tables[cmb]

CharsOfRow(row) == [i \in 1..Len(row) |-> Chars(row[i])]

\* C12: the exported file, read back, holds the column names of the table in
\* their order as its first row, then one row for every record of the table,
\* with the record's values, whatever the filter of the Browse tab is.
C12_CsvHoldsNamesAndAllRows ==
  Exported =>
    LET recs == ReadCsv(csvFile)
    IN  /\ Len(recs) = 1 + Len(SelectedTable.rows)
        /\ recs[1] = CharsOfRow(SelectedTable.cols)
        /\ \A i \in 1..Len(SelectedTable.rows) :
             recs[i + 1] = CharsOfRow(SelectedTable.rows[i])

\* A table of two rows, one value holding a line break, exported while the
\* grid shows none of its rows because of the filter.
C12_Witness ==
  /\ Exported
  /\ cmb = notizen /\ grid.table = notizen /\ grid.rows = << >>
  /\ Len(SelectedTable.rows) = 2
  /\ \E i \in 1..2 : SelectedTable.rows[i] = << "x\ny" >>

\* C13: when delete_selected_row runs with a grid row selected, the displayed
\* columns hold no column named 'id' and no column of the selected table is
\* flagged as primary key, a warning is shown, no DELETE is committed and no
\* row of any table changes.
NoKeyFlagged(def) == \A i \in 1..Len(def.pk) : def.pk[i] = 0

C13_NoKeyWarnsAndKeepsRows ==
  [][ ( /\ DeleteSelectedRow
        /\ last'.row # << >>
        /\ ColIndex(grid.cols, "id") = 0
        /\ cmb \in DOMAIN fs[cur].tables
        /\ NoKeyFlagged(fs[cur].tables[cmb]) )
      => ( /\ last'.modal = "warning"
           /\ ~last'.done
           /\ fs' = fs ) ]_vars

C13_Witness ==
  /\ last.op = "delete_selected_row"
  /\ last.row = << "a;b" >>
  /\ last.modal = "warning"
  /\ cmb = notizen /\ grid.table = notizen
  /\ NoKeyFlagged(fs[cur].tables[notizen])
  /\ Len(fs[cur].tables[notizen].rows) = 2

\* C14: whenever the editor text holds a DDL statement (create table, view
\* or trigger, drop table, a begin/end block) run_sql hands the whole text to
\* the engine as one script, and a text without DDL is split at semicolons.
DdlKinds == { "create", "drop", "view", "trigger", "trigger_select" }

ContainsDdl(stmts) == \E i \in 1..Len(stmts) : stmts[i].kind \in DdlKinds

C14_DdlRunsAsOneScript ==
  [][ \A stmts \in EditorTexts :
        RunSqlText(stmts) => (last'.mode = "script" <=> ContainsDdl(stmts)) ]_vars

\* C15: whenever delete_selected_row commits a DELETE, the table named in the
\* combobox is the table the grid's rows were loaded from, in the file that
\* is the current database.
C15_DeleteHitsDisplayedTable ==
  [][ (DeleteSelectedRow /\ last'.done) => (grid.table = cmb /\ grid.db = cur) ]_vars

\* C16: a delete_selected_row that commits its DELETE on the table the grid
\* displays removes exactly the selected row: the rows of the table afterwards
\* are its rows before without one occurrence of that row, and the rows of
\* every other table are unchanged.
WithoutRow(rows, i) == SubSeq(rows, 1, i - 1) \o SubSeq(rows, i + 1, Len(rows))

C16_DeleteRemovesOneRow ==
  [][ (DeleteSelectedRow /\ last'.done /\ grid.table = cmb /\ grid.db = cur)
      => LET before == fs[cur].tables
             after == fs'[cur].tables
         IN  /\ DOMAIN after = DOMAIN before
             /\ \A t \in DOMAIN before \ { cmb } : after[t].rows = before[t].rows
             /\ \E i \in 1..Len(before[cmb].rows) :
                  /\ before[cmb].rows[i] = last'.row
                  /\ after[cmb].rows = WithoutRow(before[cmb].rows, i) ]_vars

====
